---- MODULE Spec2Model ----
(***************************************************************************)
(* Model of main/spiffs.c: app_main mounts SPIFFS, removes and opens two   *)
(* SQLite database files, runs CREATE / INSERT / SELECT on each through    *)
(* db_exec, closes the handles and unmounts.  The SQLite engine and the    *)
(* SPIFFS driver are external collaborators: every call into them takes    *)
(* its result from the outcomes the call can produce in the current state. *)
(* A use of a closed handle or of a freed message is undefined behaviour   *)
(* and is a choice between the engine's misuse return and a crash.         *)
(***************************************************************************)
EXTENDS Integers, Sequences, FiniteSets, TLC

\* ------------------------------------------------------------------ bounds
MaxRuns == 2

\* ------------------------------------------------------- program constants
SQLITE_OK == 0
SQLITE_ERROR == 1
SQLITE_IOERR == 10
SQLITE_FULL == 13
SQLITE_CANTOPEN == 14
SQLITE_MISUSE == 21
ESP_OK == 0
ESP_FAIL == -1
ESP_ERR_NO_MEM == 257
ESP_ERR_NOT_FOUND == 261

data == "Callback function called"

DBS == {1, 2}

Content(i) ==
  IF i = 1 THEN "Hello, World from test1, ESP-IDF 5.1.1"
           ELSE "Hello, World from test2, ESP-IDF 5.1.1"

VARIABLES pc, mounted, db, rc, zErrMsg, files, log, run, prevFiles, prevClean

vars == <<pc, mounted, db, rc, zErrMsg, files, log, run, prevFiles, prevClean>>

\* ------------------------------------------------------------ file contents
NoFile == [exists |-> FALSE, hasTable |-> FALSE, rows |-> <<>>]
EmptyDb == [exists |-> TRUE, hasTable |-> FALSE, rows |-> <<>>]
TableOf(rows) == [exists |-> TRUE, hasTable |-> TRUE, rows |-> rows]
RowOf(i) == [id |-> 1, content |-> Content(i)]

\* what the flash may hold at /spiffs/test<i>.db when the program starts
InitFile(i) == {NoFile, EmptyDb, TableOf(<<>>), TableOf(<<RowOf(i)>>)}

NullMsg == [text |-> "", st |-> "null"]

\* ------------------------------------------------------------- the history
Entry(op, i, stmt, pre, status) ==
  [op |-> op, db |-> i, stmt |-> stmt, pre |-> pre, rc |-> status,
   erc |-> status, out |-> <<>>, ret |-> TRUE, msg |-> NullMsg, cb |-> <<>>]

\* the machine state the helper operators transform
St == [db |-> db, files |-> files, zErrMsg |-> zErrMsg, rc |-> rc,
       log |-> log, val |-> 0, crashed |-> FALSE]

Bind(S, F(_)) == UNION {IF s.crashed THEN {s} ELSE F(s) : s \in S}

\* ------------------------------------------------------------ row reporter
IntText(n) == IF n = 1 THEN "1" ELSE IF n = 0 THEN "0" ELSE "?"

Value(s) == [null |-> FALSE, s |-> s]
NullValue == [null |-> TRUE, s |-> ""]

\* argv[i] ? argv[i] : "NULL"
Render_NullAsEmpty(v) == v.s

Render(v) == IF v.null THEN "NULL" ELSE v.s

RECURSIVE ColumnLines(_, _, _)
ColumnLines(argv, azColName, i) ==
  IF i > Len(argv) THEN <<>>
  ELSE <<[kind |-> "col", name |-> azColName[i],
          text |-> Render(argv[i])]>>
       \o ColumnLines(argv, azColName, i + 1)

callback(label, argv, azColName) ==
  [lines |-> <<[kind |-> "label", name |-> "", text |-> label]>>
             \o ColumnLines(argv, azColName, 1)
             \o <<[kind |-> "blank", name |-> "", text |-> ""]>>,
   result |-> 0]

\* ---------------------------------------------------------- the SQL engine
ColNames == <<"id", "content">>
Argv(row) == <<Value(IntText(row.id)), Value(row.content)>>

SemOk(f, stmt) == IF stmt = "CREATE" THEN ~f.hasTable ELSE f.hasTable

SemMsg(stmt) == IF stmt = "CREATE" THEN "table already exists" ELSE "no such table"

EngineApply(f, i, stmt) ==
  IF stmt = "CREATE" THEN [f EXCEPT !.hasTable = TRUE]
  ELSE IF stmt = "INSERT" THEN [f EXCEPT !.rows = Append(@, RowOf(i))]
  ELSE f

EnvErr(stmt) ==
  IF stmt = "SELECT"
    THEN {[erc |-> SQLITE_IOERR, text |-> "disk I/O error"]}
    ELSE {[erc |-> SQLITE_IOERR, text |-> "disk I/O error"],
          [erc |-> SQLITE_FULL, text |-> "database or disk is full"]}

\* outcomes of sqlite3_exec(db_i, stmt, callback, data, &zErrMsg)
ExecOutcomes(s, i, stmt) ==
  IF s.db[i] = "open"
    THEN {[crash |-> FALSE, erc |-> e.erc, setsMsg |-> TRUE, text |-> e.text,
           freeCrash |-> FALSE] :
            e \in EnvErr(stmt) \cup
                  {IF SemOk(s.files[i], stmt)
                     THEN [erc |-> SQLITE_OK, text |-> ""]
                     ELSE [erc |-> SQLITE_ERROR, text |-> SemMsg(stmt)]}}
  ELSE IF s.db[i] = "closed"
    THEN {[crash |-> TRUE, erc |-> SQLITE_MISUSE, setsMsg |-> FALSE, text |-> "",
           freeCrash |-> FALSE]}
         \cup {[crash |-> FALSE, erc |-> SQLITE_MISUSE, setsMsg |-> FALSE,
                text |-> "", freeCrash |-> b] :
                 b \in IF s.zErrMsg.st = "freed" THEN BOOLEAN ELSE {FALSE}}
  ELSE {[crash |-> FALSE, erc |-> SQLITE_MISUSE, setsMsg |-> FALSE, text |-> "",
         freeCrash |-> FALSE]}

\* ------------------------------------------------------------------ db_exec
\* what db_exec prints, in order, when sqlite3_exec returned erc
ExecOutput_TimeOnlyOnSuccess(erc) ==
  <<"sql">> \o (IF erc # SQLITE_OK THEN <<"errmsg", "free">> ELSE <<"done", "time">>)

ExecOutput(erc) ==
  <<"sql">> \o (IF erc # SQLITE_OK THEN <<"errmsg", "free">> ELSE <<"done">>)
            \o <<"time">>

\* the rows sqlite3_exec hands to the callback db_exec passes: the rows of a
\* SELECT that succeeded
Delivered_NoCallback(f, stmt, erc) == <<>>

Delivered(f, stmt, erc) ==
  IF erc = SQLITE_OK /\ stmt = "SELECT" THEN f.rows ELSE <<>>

\* int db_exec(sqlite3 *db, const char *sql), for one outcome o of the engine
db_exec(s, i, stmt, o) ==
  LET base == [Entry("exec", i, stmt, s.db[i], o.erc) EXCEPT !.out = <<"sql">>]
      z1 == IF ~o.setsMsg THEN s.zErrMsg
            ELSE IF o.erc = SQLITE_OK THEN NullMsg
            ELSE [text |-> o.text, st |-> "live"]
      f1 == IF o.erc = SQLITE_OK THEN EngineApply(s.files[i], i, stmt)
            ELSE s.files[i]
      rows == Delivered(s.files[i], stmt, o.erc)
      cbs == [k \in 1..Len(rows) |-> callback(data, Argv(rows[k]), ColNames)]
  IN IF o.crash
       THEN [s EXCEPT !.crashed = TRUE,
                      !.log = Append(@, [base EXCEPT !.ret = FALSE])]
     ELSE IF o.erc # SQLITE_OK
       THEN IF o.freeCrash
              THEN [s EXCEPT !.crashed = TRUE,
                             !.zErrMsg = z1,
                             !.log = Append(@, [base EXCEPT !.ret = FALSE,
                                                  !.msg = z1,
                                                  !.out = SubSeq(ExecOutput(o.erc), 1, 2)])]
              ELSE [s EXCEPT !.zErrMsg = IF z1.st = "null" THEN z1
                                         ELSE [z1 EXCEPT !.st = "freed"],
                             !.val = o.erc,
                             !.log = Append(@, [base EXCEPT !.rc = o.erc,
                                                  !.msg = z1,
                                                  !.out = ExecOutput(o.erc)])]
     ELSE [s EXCEPT !.zErrMsg = z1,
                    !.files[i] = f1,
                    !.val = o.erc,
                    !.log = Append(@, [base EXCEPT !.rc = o.erc,
                                         !.cb = cbs,
                                         !.out = ExecOutput(o.erc)])]

ExecSet(s, i, stmt) == {db_exec(s, i, stmt, o) : o \in ExecOutcomes(s, i, stmt)}

\* ------------------------------------------------------------ sqlite3_close
CloseOutcomes(s, i) == IF s.db[i] = "closed" THEN {"misuse", "crash"} ELSE {"ok"}

sqlite3_close(s, i, c) ==
  LET e == Entry("close", i, "", s.db[i], IF c = "ok" THEN SQLITE_OK ELSE SQLITE_MISUSE)
  IN IF c = "crash"
       THEN [s EXCEPT !.crashed = TRUE, !.log = Append(@, [e EXCEPT !.ret = FALSE])]
       ELSE [s EXCEPT !.db[i] = IF @ \in {"open", "failed"} THEN "closed" ELSE @,
                      !.log = Append(@, e)]

CloseSet(s, i) == {sqlite3_close(s, i, c) : c \in CloseOutcomes(s, i)}

\* sqlite3_close(db1); sqlite3_close(db2);
CloseBoth_Rollback(s) ==
  {[t EXCEPT !.files = [i \in DBS |-> IF @[i].exists THEN EmptyDb ELSE @[i]]] :
     t \in Bind(CloseSet(s, 1), LAMBDA u : CloseSet(u, 2))}

CloseBoth(s) == Bind(CloseSet(s, 1), LAMBDA t : CloseSet(t, 2))

\* ------------------------------------------------------------------ db_open
db_open(s, i, ok) ==
  IF ok
    THEN [s EXCEPT !.db[i] = "open",
                   !.files[i] = IF @.exists THEN @ ELSE EmptyDb,
                   !.val = SQLITE_OK,
                   !.log = Append(@, Entry("open", i, "", s.db[i], SQLITE_OK))]
    ELSE [s EXCEPT !.db[i] = "failed",
                   !.val = SQLITE_CANTOPEN,
                   !.log = Append(@, Entry("open", i, "", s.db[i], SQLITE_CANTOPEN))]

\* ------------------------------------- create_db / insert_data / select_data
\* rc = db_exec(db1, sql1); on failure close both and return;
\* rc = db_exec(db2, sql2); on failure close both and return.
TwoDbStep_NoReturnAfterDb1(s, stmt) ==
  Bind(ExecSet(s, 1, stmt), LAMBDA t :
    LET t1 == [t EXCEPT !.rc = t.val]
    IN Bind(IF t1.rc # SQLITE_OK THEN CloseBoth(t1) ELSE {t1}, LAMBDA v :
         Bind(ExecSet(v, 2, stmt), LAMBDA u :
           LET u1 == [u EXCEPT !.rc = u.val]
           IN IF u1.rc # SQLITE_OK THEN CloseBoth(u1) ELSE {u1})))

TwoDbStep(s, stmt) ==
  Bind(ExecSet(s, 1, stmt), LAMBDA t :
    LET t1 == [t EXCEPT !.rc = t.val]
    IN IF t1.rc # SQLITE_OK
         THEN CloseBoth(t1)
         ELSE Bind(ExecSet(t1, 2, stmt), LAMBDA u :
                LET u1 == [u EXCEPT !.rc = u.val]
                IN IF u1.rc # SQLITE_OK THEN CloseBoth(u1) ELSE {u1}))

create_db(s) == TwoDbStep(s, "CREATE")
insert_data(s) == TwoDbStep(s, "INSERT")
select_data(s) == TwoDbStep(s, "SELECT")

\* ------------------------------------------------------------------ unlink
UnlinkOutcomes(s, i) == IF s.files[i].exists THEN {0, -1} ELSE {-1}

unlink(s, i, r) ==
  [s EXCEPT !.files[i] = IF r = 0 THEN NoFile ELSE @,
            !.log = Append(@, Entry("unlink", i, "",
                                    IF s.files[i].exists THEN "present" ELSE "absent", r))]

UnlinkBoth_Skipped(s) == {s}

UnlinkBoth(s) ==
  Bind({unlink(s, 1, r) : r \in UnlinkOutcomes(s, 1)},
       LAMBDA t : {unlink(t, 2, r) : r \in UnlinkOutcomes(t, 2)})

\* ------------------------------------------------------------------ app_main
Commit(t, next) ==
  /\ db' = t.db
  /\ files' = t.files
  /\ zErrMsg' = t.zErrMsg
  /\ rc' = t.rc
  /\ log' = t.log
  /\ pc' = IF t.crashed THEN "crashed" ELSE next

\* if (ret != ESP_OK) { ...; return; }
AfterMount_NoReturn(ret) == "info"

AfterMount(ret) == IF ret # ESP_OK THEN "done" ELSE "info"

MountResults == {ESP_OK, ESP_FAIL, ESP_ERR_NOT_FOUND, ESP_ERR_NO_MEM}

\* esp_vfs_spiffs_register(&conf) with format_if_mount_failed = true
Mount ==
  /\ pc = "start"
  /\ \E ret \in MountResults, formatted \in BOOLEAN :
       /\ formatted => ret = ESP_OK
       /\ log' = Append(log, Entry("mount", 0, "",
                                   IF formatted THEN "formatted" ELSE "", ret))
       /\ files' = IF formatted THEN [i \in DBS |-> NoFile] ELSE files
       /\ mounted' = (ret = ESP_OK)
       /\ pc' = AfterMount(ret)
  /\ UNCHANGED <<db, rc, zErrMsg, run, prevFiles, prevClean>>

\* esp_spiffs_info(NULL, &total, &used): the result is only logged
SpiffsInfo ==
  /\ pc = "info"
  /\ \E ret \in {ESP_OK, ESP_FAIL} :
       log' = Append(log, Entry("info", 0, "", "", ret))
  /\ pc' = "unlink"
  /\ UNCHANGED <<mounted, db, rc, zErrMsg, files, run, prevFiles, prevClean>>

Unlink ==
  /\ pc = "unlink"
  /\ \E t \in UnlinkBoth(St) : Commit(t, "init")
  /\ UNCHANGED <<mounted, run, prevFiles, prevClean>>

Initialize ==
  /\ pc = "init"
  /\ log' = Append(log, Entry("init", 0, "", "", SQLITE_OK))
  /\ pc' = "open1"
  /\ UNCHANGED <<mounted, db, rc, zErrMsg, files, run, prevFiles, prevClean>>

\* if (db_open(path_i, &db_i)) return;
OpenStep(s, i, ok, next) ==
  LET t == db_open(s, i, ok)
  IN Commit(t, IF t.val # 0 THEN "done" ELSE next)

Open1 ==
  /\ pc = "open1"
  /\ \E ok \in BOOLEAN : OpenStep(St, 1, ok, "open2")
  /\ UNCHANGED <<mounted, run, prevFiles, prevClean>>

Open2 ==
  /\ pc = "open2"
  /\ \E ok \in BOOLEAN : OpenStep(St, 2, ok, "create")
  /\ UNCHANGED <<mounted, run, prevFiles, prevClean>>

CreateDb ==
  /\ pc = "create"
  /\ \E t \in create_db(St) : Commit(t, "insert")
  /\ UNCHANGED <<mounted, run, prevFiles, prevClean>>

InsertData ==
  /\ pc = "insert"
  /\ \E t \in insert_data(St) : Commit(t, "select")
  /\ UNCHANGED <<mounted, run, prevFiles, prevClean>>

SelectData ==
  /\ pc = "select"
  /\ \E t \in select_data(St) : Commit(t, "close")
  /\ UNCHANGED <<mounted, run, prevFiles, prevClean>>

\* sqlite3_close(db1); sqlite3_close(db2); at the end of app_main
FinalClose_SkipDb2(s) == CloseSet(s, 1)

FinalClose_Db2First(s) == Bind(CloseSet(s, 2), LAMBDA t : CloseSet(t, 1))

FinalClose_None(s) == {s}

FinalClose(s) == CloseBoth(s)

CloseDbs ==
  /\ pc = "close"
  /\ \E t \in FinalClose(St) : Commit(t, "unmount")
  /\ UNCHANGED <<mounted, run, prevFiles, prevClean>>

Unmount ==
  /\ pc = "unmount"
  /\ log' = Append(log, Entry("unmount", 0, "", "", ESP_OK))
  /\ mounted' = FALSE
  /\ pc' = "done"
  /\ UNCHANGED <<db, rc, zErrMsg, files, run, prevFiles, prevClean>>

\* ------------------------------------------------------ predicates on a run
Idx == 1..Len(log)
Failed(k) == log[k].op \in {"mount", "open", "exec"} /\ (log[k].rc # 0 \/ ~log[k].ret)
NoFailure == \A k \in Idx : ~Failed(k)
Completed == pc = "done" /\ Len(log) > 0 /\ log[Len(log)].op = "unmount"
CleanRun == Completed /\ NoFailure

\* the device restarts and app_main is entered again; the flash keeps the files
Reboot ==
  /\ pc \in {"done", "crashed"}
  /\ run < MaxRuns
  /\ run' = run + 1
  /\ prevClean' = CleanRun
  /\ prevFiles' = IF CleanRun THEN files ELSE [i \in DBS |-> NoFile]
  /\ pc' = "start"
  /\ mounted' = FALSE
  /\ db' = [i \in DBS |-> "null"]
  /\ rc' = 0
  /\ zErrMsg' = NullMsg
  /\ log' = <<>>
  /\ UNCHANGED files

Init ==
  /\ pc = "start"
  /\ mounted = FALSE
  /\ db = [i \in DBS |-> "null"]
  /\ rc = 0
  /\ zErrMsg = NullMsg
  /\ files \in [DBS -> UNION {InitFile(i) : i \in DBS}]
  /\ \A i \in DBS : files[i] \in InitFile(i)
  /\ log = <<>>
  /\ run = 1
  /\ prevFiles = [i \in DBS |-> NoFile]
  /\ prevClean = FALSE

Next ==
  \/ Mount
  \/ SpiffsInfo
  \/ Unlink
  \/ Initialize
  \/ Open1
  \/ Open2
  \/ CreateDb
  \/ InsertData
  \/ SelectData
  \/ CloseDbs
  \/ Unmount
  \/ Reboot

Spec == Init /\ [][Next]_vars

TypeOK ==
  /\ pc \in {"start", "info", "unlink", "init", "open1", "open2", "create",
             "insert", "select", "close", "unmount", "done", "crashed"}
  /\ run \in 1..MaxRuns
  /\ \A i \in DBS : db[i] \in {"null", "open", "failed", "closed"}

\* --------------------------------------------- the row reporter on its own
\* callback applied to rows of up to MaxCols columns whose values are NULL,
\* the empty text or a text, MaxCalls times in a row
MaxCols == 3
MaxCalls == 2

CbValues == {NullValue, Value(""), Value("X")}
CbLabels == {data, "row"}
CbName(i) == IF i = 1 THEN "id" ELSE IF i = 2 THEN "content"
             ELSE IF i = 3 THEN "c3" ELSE IF i = 4 THEN "c4" ELSE "c5"
CbRows == UNION {[1..n -> CbValues] : n \in 0..MaxCols}

InitCb ==
  /\ pc = "callback"
  /\ mounted = FALSE
  /\ db = [i \in DBS |-> "null"]
  /\ rc = 0
  /\ zErrMsg = NullMsg
  /\ files = [i \in DBS |-> NoFile]
  /\ log = <<>>
  /\ run = 1
  /\ prevFiles = [i \in DBS |-> NoFile]
  /\ prevClean = FALSE

CallbackCall ==
  /\ pc = "callback"
  /\ Len(log) < MaxCalls
  /\ \E label \in CbLabels, argv \in CbRows :
       LET names == [i \in 1..Len(argv) |-> CbName(i)]
       IN log' = Append(log, [op |-> "callback", label |-> label, argv |-> argv,
                              names |-> names,
                              res |-> callback(label, argv, names)])
  /\ UNCHANGED <<pc, mounted, db, rc, zErrMsg, files, run, prevFiles, prevClean>>

NextCb == CallbackCall

SpecCb == InitCb /\ [][NextCb]_vars

\* ------------------------------------------------------------------ claims
Closes(i) == Cardinality({k \in Idx : log[k].op = "close" /\ log[k].db = i})
OpenedOk(i) == \E k \in Idx : log[k].op = "open" /\ log[k].db = i /\ log[k].rc = SQLITE_OK
CallFailed(k) == log[k].op \in {"open", "exec"} /\ log[k].ret /\ log[k].rc # SQLITE_OK
ExecOn(k, i, stmt) == log[k].op = "exec" /\ log[k].db = i /\ log[k].stmt = stmt

\* C1: when app_main has returned, sqlite3_close was called exactly once for
\* each handle whose db_open succeeded and never for a handle that was not
\* opened, whichever calls failed.
C1_CloseOncePerOpenedHandle ==
  pc = "done" =>
    \A i \in DBS : Closes(i) = IF OpenedOk(i) THEN 1 ELSE 0

\* C2: once a db_open or db_exec call has returned a failure status, no later
\* db_open or db_exec is issued in the run, and when the run has ended no
\* handle is left open.
C2_NoStepAfterFailure ==
  /\ \A j \in Idx : \A k \in Idx :
       (j < k /\ CallFailed(j)) => log[k].op \notin {"open", "exec"}
  /\ (pc = "done" /\ \E j \in Idx : CallFailed(j)) => \A i \in DBS : db[i] # "open"

\* C3: no sqlite3_exec and no second sqlite3_close is issued on a handle after
\* sqlite3_close has been called on it.
C3_NeverUsedAfterClose ==
  \A j \in Idx : \A k \in Idx :
    (j < k /\ log[j].op = "close" /\ log[k].op \in {"exec", "close"})
      => log[j].db # log[k].db

\* C4: if CREATE TABLE on db1 failed, CREATE TABLE on db2 is never issued and,
\* when the run has ended, each handle has been closed exactly once.
C4_CreateAbortClosesOnce ==
  (\E k \in Idx : ExecOn(k, 1, "CREATE") /\ log[k].ret /\ log[k].rc # SQLITE_OK) =>
    /\ \A k \in Idx : ~ExecOn(k, 2, "CREATE")
    /\ pc = "done" => \A i \in DBS : Closes(i) = 1

\* C5: if a db_open failed, no db_exec is issued, and when the run has ended
\* every handle that had been opened has been closed.
C5_OpenFailureClosesOpened ==
  (\E k \in Idx : log[k].op = "open" /\ log[k].rc # SQLITE_OK) =>
    /\ \A k \in Idx : log[k].op # "exec"
    /\ pc = "done" => \A i \in DBS : OpenedOk(i) => (Closes(i) >= 1 /\ db[i] = "closed")

\* C6: in a run where the mount, both opens and all six statements succeeded
\* and app_main returned, each handle was opened once and closed once: the
\* number of sqlite3_close calls equals the number of successful opens, two.
C6_NoLeakOnSuccess ==
  CleanRun =>
    /\ \A i \in DBS : OpenedOk(i) /\ Closes(i) = 1 /\ db[i] = "closed"
    /\ Cardinality({k \in Idx : log[k].op = "close"})
         = Cardinality({k \in Idx : log[k].op = "open" /\ log[k].rc = SQLITE_OK})

C6_Witness ==
  CleanRun /\ Cardinality({k \in Idx : log[k].op = "close"}) = 2

\* C7: if esp_vfs_spiffs_register returned a non-OK result, the mount is the
\* only operation of the run: app_main has returned, nothing is mounted, no
\* unlink, initialize, open, exec, close or second mount was performed and
\* no handle exists.
C7_MountFailureAborts ==
  (\E k \in Idx : log[k].op = "mount" /\ log[k].rc # ESP_OK) =>
    /\ Len(log) = 1
    /\ pc = "done"
    /\ ~mounted
    /\ \A i \in DBS : db[i] = "null"

C7_Witness ==
  /\ Len(log) = 1
  /\ log[1].op = "mount"
  /\ log[1].rc = ESP_ERR_NOT_FOUND
  /\ pc = "done"

\* C8: while no mount, open or statement has failed, the mount, open, exec,
\* close and unmount calls made so far are a prefix of: mount, open 1, open 2,
\* CREATE 1, CREATE 2, INSERT 1, INSERT 2, SELECT 1, SELECT 2, close 1,
\* close 2, unmount; when app_main has returned they are exactly that
\* sequence and the filesystem is unmounted.
Expected ==
  <<<<"mount", 0, "">>, <<"open", 1, "">>, <<"open", 2, "">>,
    <<"exec", 1, "CREATE">>, <<"exec", 2, "CREATE">>,
    <<"exec", 1, "INSERT">>, <<"exec", 2, "INSERT">>,
    <<"exec", 1, "SELECT">>, <<"exec", 2, "SELECT">>,
    <<"close", 1, "">>, <<"close", 2, "">>, <<"unmount", 0, "">>>>

Sequenced(e) == e.op \in {"mount", "open", "exec", "close", "unmount"}
Calls ==
  LET sel == SelectSeq(log, Sequenced)
  IN [k \in 1..Len(sel) |-> <<sel[k].op, sel[k].db, sel[k].stmt>>]

C8_SuccessOrder ==
  NoFailure =>
    /\ Len(Calls) <= Len(Expected)
    /\ Calls = SubSeq(Expected, 1, Len(Calls))
    /\ pc = "done" => (Calls = Expected /\ ~mounted)

C8_Witness ==
  pc = "done" /\ NoFailure /\ Calls = Expected /\ ~mounted

\* C9: every db_exec call reports the elapsed time at most once, and a call
\* that returned reported it exactly once, as its last output; when the
\* engine returned a failure status the call printed the message, then freed
\* it, then reported the time, in that order; the value returned is the
\* engine's status, so it is SQLITE_OK only when the engine succeeded.
Count(seq, x) == Cardinality({n \in 1..Len(seq) : seq[n] = x})

UnlinkFailed(i) ==
  \E k \in Idx : /\ log[k].op = "unlink"
                 /\ log[k].db = i
                 /\ log[k].pre = "present"
                 /\ log[k].rc # 0

C10_SecondRunSameContents ==
  /\ CleanRun => \A i \in DBS : files[i] = TableOf(<<RowOf(i)>>)
  /\ (run >= 2 /\ prevClean /\ CleanRun) => files = prevFiles
  /\ \A k \in Idx : \A i \in DBS :
       (ExecOn(k, i, "CREATE") /\ log[k].pre = "open" /\ log[k].erc = SQLITE_ERROR)
         => UnlinkFailed(i)

C10_Witness ==
  /\ run = 2
  /\ prevClean
  /\ CleanRun
  /\ files = prevFiles
  /\ \A i \in DBS : Len(files[i].rows) = 1

\* C11: a successful SELECT on a table that received exactly one successful
\* INSERT in the run invokes the callback exactly once, with the label and
\* the columns id = 1 and content = the inserted text, in that order; the
\* callback is never invoked for a CREATE TABLE or an INSERT.
Inserts(i, k) ==
  Cardinality({j \in 1..(k - 1) : ExecOn(j, i, "INSERT") /\ log[j].ret
                                    /\ log[j].rc = SQLITE_OK})

C11_CallbackOncePerRow ==
  \A k \in Idx : log[k].op = "exec" =>
    /\ log[k].stmt \in {"CREATE", "INSERT"} => log[k].cb = <<>>
    /\ (log[k].stmt = "SELECT" /\ log[k].ret /\ log[k].rc = SQLITE_OK
          /\ Inserts(log[k].db, k) = 1)
         => /\ Len(log[k].cb) = 1
            /\ log[k].cb[1].result = 0
            /\ log[k].cb[1].lines =
                 <<[kind |-> "label", name |-> "", text |-> data],
                   [kind |-> "col", name |-> "id", text |-> "1"],
                   [kind |-> "col", name |-> "content", text |-> Content(log[k].db)],
                   [kind |-> "blank", name |-> "", text |-> ""]>>

C11_Witness ==
  \E k \in Idx : /\ ExecOn(k, 2, "SELECT")
                 /\ log[k].rc = SQLITE_OK
                 /\ Inserts(2, k) = 1
                 /\ Len(log[k].cb) = 1

\* C12: for every row passed to the callback the output is the label line,
\* then one line per column in index order 1..argc carrying that column's
\* name and its value, a NULL value rendered as the text NULL and never as
\* the empty text, then one blank line; the result is 0; and the output of a
\* call depends on its arguments only, not on the calls made before it.
C12_CallbackFormat ==
  /\ \A k \in Idx :
       LET c == log[k]
           L == c.res.lines
           n == Len(c.argv)
       IN /\ Len(L) = n + 2
          /\ L[1] = [kind |-> "label", name |-> "", text |-> c.label]
          /\ \A j \in 2..(n + 2) : L[j].kind # "label"
          /\ \A i \in 1..n :
               /\ L[i + 1].kind = "col"
               /\ L[i + 1].name = c.names[i]
               /\ c.argv[i].null => (L[i + 1].text = "NULL" /\ L[i + 1].text # "")
               /\ ~c.argv[i].null => L[i + 1].text = c.argv[i].s
          /\ L[n + 2] = [kind |-> "blank", name |-> "", text |-> ""]
          /\ c.res.result = 0
  /\ \A j \in Idx : \A k \in Idx :
       (log[j].label = log[k].label /\ log[j].argv = log[k].argv)
         => log[j].res = log[k].res

C12_Witness ==
  /\ Len(log) = 2
  /\ log[1].argv # log[2].argv
  /\ Len(log[2].argv) = 2
  /\ log[2].argv[1].null
  /\ ~log[2].argv[2].null
  /\ log[2].res.lines[2].text = "NULL"

\* C13: in create_db, insert_data and select_data, when the statement on db1
\* returned a failure, the statement of the same step on db2 is not
\* executed, sqlite3_close is called on db1 and then on db2 right after the
\* failed statement, and both connections are closed afterwards; a close
\* call fails to return only when its handle had been closed before.
IsClose(k, i) == k \in Idx /\ log[k].op = "close" /\ log[k].db = i
Returned(k) == log[k].ret \/ (log[k].pre = "closed" /\ k = Len(log) /\ pc = "crashed")

C13_StepAbortsAfterDb1Failure ==
  \A k \in Idx :
    (log[k].op = "exec" /\ log[k].db = 1 /\ log[k].ret /\ log[k].rc # SQLITE_OK) =>
      /\ \A j \in Idx : ~ExecOn(j, 2, log[k].stmt)
      /\ IsClose(k + 1, 1)
      /\ Returned(k + 1)
      /\ log[k + 1].ret => (IsClose(k + 2, 2) /\ Returned(k + 2))
      /\ \A i \in DBS : db[i] = "closed"

C13_Witness ==
  \E k \in Idx : /\ ExecOn(k, 1, "INSERT")
                 /\ log[k].pre = "open"
                 /\ log[k].rc = SQLITE_IOERR
                 /\ IsClose(k + 1, 1)
                 /\ IsClose(k + 2, 2)
                 /\ log[k + 2].ret

\* C14: when app_main has returned from a run in which
\* esp_vfs_spiffs_register succeeded, esp_vfs_spiffs_unregister has been
\* called exactly once and the filesystem is no longer mounted, on the
\* success path and on every failure path.
OpCount(op) == Cardinality({k \in Idx : log[k].op = op})

C14_UnmountOncePerRun ==
  /\ OpCount("mount") <= 1
  /\ (pc = "done" /\ \E k \in Idx : log[k].op = "mount" /\ log[k].rc = ESP_OK)
       => (OpCount("unmount") = 1 /\ ~mounted)

\* C15: a step of create_db, insert_data, select_data or the final close
\* leaves a database file exactly as it was unless a CREATE or INSERT on
\* that database succeeded in the step, and then the file, its table and
\* the rows it already had are kept: handling a failed statement undoes
\* nothing that an earlier statement did.
NewOk(i) ==
  \E k \in (Len(log) + 1)..Len(log') :
    /\ log'[k].op = "exec"
    /\ log'[k].db = i
    /\ log'[k].stmt \in {"CREATE", "INSERT"}
    /\ log'[k].ret
    /\ log'[k].rc = SQLITE_OK

Kept(f, g) ==
  /\ f.exists => g.exists
  /\ f.hasTable => g.hasTable
  /\ Len(g.rows) >= Len(f.rows)
  /\ SubSeq(g.rows, 1, Len(f.rows)) = f.rows

StepKeeps ==
  pc \in {"create", "insert", "select", "close"} =>
    \A i \in DBS : IF NewOk(i) THEN Kept(files[i], files'[i])
                               ELSE files'[i] = files[i]

C15_FailureKeepsEarlierResults == [][StepKeeps]_vars

C15_Witness ==
  \E k \in Idx : /\ ExecOn(k, 1, "CREATE")
                 /\ log[k].rc = SQLITE_OK
                 /\ ExecOn(k + 1, 2, "CREATE")
                 /\ log[k + 1].rc # SQLITE_OK
                 /\ IsClose(k + 2, 1)
                 /\ files[1] = TableOf(<<>>)
                 /\ ~files[2].hasTable

\* C16: whenever db_exec prints and frees zErrMsg, the message is one the
\* engine produced during that call and it has not been freed before.
C16_MessageFreedOnce ==
  \A k \in Idx :
    (log[k].op = "exec" /\ Len(log[k].out) >= 2 /\ log[k].out[2] = "errmsg")
      => log[k].msg.st = "live"

\* C17: a handle is open only while the filesystem is mounted; every db_open,
\* db_exec and sqlite3_close of a run comes after a successful mount and
\* before any unmount; and once esp_vfs_spiffs_unregister has been called
\* neither db1 nor db2 is open.
C17_HandlesOnlyWhileMounted ==
  /\ \A i \in DBS : db[i] = "open" => mounted
  /\ mounted => \E j \in Idx : log[j].op = "mount" /\ log[j].rc = ESP_OK
  /\ \A k \in Idx : log[k].op \in {"open", "exec", "close"} =>
       /\ \E j \in 1..(k - 1) : log[j].op = "mount" /\ log[j].rc = ESP_OK
       /\ \A j \in 1..(k - 1) : log[j].op # "unmount"
  /\ (\E k \in Idx : log[k].op = "unmount") => \A i \in DBS : db[i] # "open"

C17_Witness ==
  /\ \E k \in Idx : log[k].op = "unmount"
  /\ \A i \in DBS : OpenedOk(i) /\ db[i] = "closed"
  /\ ~mounted

====
